---- MODULE Spec2Model ----
(***************************************************************************)
(* Model of cursortracker.py, a Blender add-on that records the history of *)
(* a scene's 3D cursor.                                                    *)
(*                                                                         *)
(* Every scene carries a cursor_history_props group (history_list,         *)
(* active_index, is_recording, last_cursor_pos) and its own 3D cursor.     *)
(* The operators act on the props of the context scene; the depsgraph      *)
(* handler is called by the host with a scene argument.                    *)
(*                                                                         *)
(* Coordinates are integers counting units of 0.0001, so the tolerance     *)
(* 0.001 is 10 units and the comparison `length > 0.001` is decided on     *)
(* the squares in exact arithmetic (float rounding is not modelled).       *)
(* active_index is 0-based as in the code: row i is history_list[i + 1].   *)
(***************************************************************************)
EXTENDS Integers, Sequences, FiniteSets, TLC

\* ------------------------------------------------------------------ bounds
\* Number of operations (commands, cursor moves, notifications) in a run.
MaxSteps == 3

\* --------------------------------------------------------- program constants
\* max_entries = 100
max_entries == 100

\* the tolerance 0.001 of cursor_position_handler, in units of 0.0001
Tolerance == 10

\* classes: the registrable classes, in registration order
classes ==
    <<"CursorHistoryEntry", "CursorHistoryProperties", "CURSOR_UL_history_list",
      "CURSOR_OT_start_recording", "CURSOR_OT_stop_recording",
      "CURSOR_OT_delete_entry", "CURSOR_OT_clear_history",
      "CURSOR_OT_jump_to_position", "CURSOR_PT_history_panel">>

\* ------------------------------------------------------------ input domains
\* The scenes of the open file.
Scenes == {"SceneA", "SceneB"}

Origin == <<0, 0, 0>>

\* Far from every other position.
FarPoint == <<10000, 20000, 30000>>

\* Positions the user moves a cursor to: at distance 0, exactly 0.001 (along
\* an axis and as a 6-8-10 triangle) and 0.0011 from the origin.
MovePoints == {Origin, <<0, 0, 10>>, <<0, 0, 11>>, <<6, 8, 0>>}

Points == MovePoints \cup {FarPoint}

\* Wall-clock readings (seconds since midnight) that datetime.now() returns.
Clock == {3600, 86399}

\* -------------------------------------------------------------------- state
VARIABLES
    history_list,     \* scene -> sequence of CursorHistoryEntry
    active_index,     \* scene -> selected row (0-based)
    is_recording,     \* scene -> BOOLEAN
    last_cursor_pos,  \* scene -> position
    cursor_location,  \* scene -> scene.cursor.location
    context_scene,    \* bpy.context.scene
    fault,            \* an operator raised an exception
    registered_classes,          \* classes registered with bpy.utils
    Scene_cursor_history_props,  \* bpy.types.Scene has cursor_history_props
    depsgraph_update_post,       \* times the handler is in the host's list
    exception,        \* what the last register() or unregister() raised
    op,               \* the operation that produced this state
    pre,              \* the stores and cursors before that operation
    steps             \* operations so far

stores == <<history_list, active_index, is_recording, last_cursor_pos>>

\* The add-on's registrations with the host.
registration ==
    <<registered_classes, Scene_cursor_history_props, depsgraph_update_post>>

vars == <<history_list, active_index, is_recording, last_cursor_pos,
          cursor_location, context_scene, fault, registered_classes,
          Scene_cursor_history_props, depsgraph_update_post, exception,
          op, pre, steps>>

\* ----------------------------------------------------------- pure functions
\* datetime.strftime("%H:%M:%S") of a reading of the clock
strftime(now) == <<(now \div 3600) % 24, (now \div 60) % 60, now % 60>>

\* CursorHistoryEntry
CursorHistoryEntry(location, timestamp) ==
    [location |-> location, timestamp |-> timestamp]

\* Vector subtraction: current_pos - last_pos
Vsub(a, b) == <<a[1] - b[1], a[2] - b[2], a[3] - b[3]>>

LengthSq(v) == v[1] * v[1] + v[2] * v[2] + v[3] * v[3]

has_moved_ge(current_pos, last_pos) ==
    LengthSq(Vsub(current_pos, last_pos)) >= Tolerance * Tolerance

\* (current_pos - last_pos).length > 0.001
has_moved(current_pos, last_pos) ==
    LengthSq(Vsub(current_pos, last_pos)) > Tolerance * Tolerance

remove_last(list, index) ==
    IF 0 <= index /\ index < Len(list)
    THEN SubSeq(list, 1, Len(list) - 1)
    ELSE list

remove_first(list, index) ==
    IF 0 <= index /\ index < Len(list)
    THEN SubSeq(list, 2, Len(list))
    ELSE list

\* bpy collection remove(index): drops the item at a valid 0-based index and
\* keeps the others in order; an index out of range removes nothing.
remove(list, index) ==
    IF 0 <= index /\ index < Len(list)
    THEN SubSeq(list, 1, index) \o SubSeq(list, index + 2, Len(list))
    ELSE list

over_limit_off_by_one(list) == Len(list) > max_entries + 1

over_limit_early(list) == Len(list) >= max_entries

\* len(props.history_list) > max_entries
over_limit(list) == Len(list) > max_entries

\* The list after add_cursor_history_entry: the new entry is added at the
\* end, then the list is trimmed.
list_after_add(list, location, now) ==
    LET added == Append(list, CursorHistoryEntry(location, strftime(now)))
    IN  IF over_limit(added) THEN remove(added, 0) ELSE added

\* add_cursor_history_entry(location): acts on the props of bpy.context.scene
add_cursor_history_entry(location, now) ==
    LET props == context_scene
        list  == list_after_add(history_list[props], location, now)
    IN  /\ history_list' = [history_list EXCEPT ![props] = list]
        /\ active_index' = [active_index EXCEPT ![props] = Len(list) - 1]

\* ------------------------------------------------------------ initial state
\* A history of n entries as an earlier session left it in the file.
SavedPoint(i) ==
    CASE i % 3 = 0 -> FarPoint
      [] i % 3 = 1 -> <<0, 0, 11>>
      [] OTHER     -> <<6, 8, 0>>

SavedHistory(n) == [i \in 1..n |-> CursorHistoryEntry(SavedPoint(i), strftime(i))]

\* The props of a scene when the file is opened: the defaults of a new scene,
\* a history of max_entries - 1 entries saved with recording off or on, or
\* the props as StartRecording leaves them on a new scene.
InitialProps ==
    {[history_list |-> <<>>, active_index |-> 0, is_recording |-> FALSE,
      last_cursor_pos |-> Origin]}
    \cup
    {[history_list |-> SavedHistory(max_entries - 1),
      active_index |-> max_entries - 2, is_recording |-> r,
      last_cursor_pos |-> SavedPoint(max_entries - 1)] : r \in BOOLEAN}
    \cup
    {[history_list |-> <<CursorHistoryEntry(Origin, strftime(0))>>,
      active_index |-> 0, is_recording |-> TRUE, last_cursor_pos |-> Origin]}

Range(f) == {f[i] : i \in DOMAIN f}

Snapshot ==
    [history_list |-> history_list, active_index |-> active_index,
     is_recording |-> is_recording, last_cursor_pos |-> last_cursor_pos,
     cursor_location |-> cursor_location, context_scene |-> context_scene,
     registration |-> registration]

Init ==
    /\ \E p \in [Scenes -> InitialProps] :
          /\ history_list = [s \in Scenes |-> p[s].history_list]
          /\ active_index = [s \in Scenes |-> p[s].active_index]
          /\ is_recording = [s \in Scenes |-> p[s].is_recording]
          /\ last_cursor_pos = [s \in Scenes |-> p[s].last_cursor_pos]
          /\ cursor_location = [s \in Scenes |-> p[s].last_cursor_pos]
    /\ context_scene = "SceneA"
    /\ fault = FALSE
    /\ \E loaded \in BOOLEAN :
          /\ registered_classes = IF loaded THEN Range(classes) ELSE {}
          /\ Scene_cursor_history_props = loaded
          /\ depsgraph_update_post = IF loaded THEN 1 ELSE 0
    /\ exception = "none"
    /\ op = [name |-> "init", scene |-> "SceneA", list_changed |-> FALSE,
             cursor_from |-> Origin, registration_from |-> registration,
             prev |-> [name |-> "init", scene |-> "SceneA",
                       list_changed |-> FALSE, cursor_from |-> Origin,
                       registration_from |-> registration]]
    /\ pre = Snapshot
    /\ steps = 0

\* What op remembers of the operation before the last one.
Brief(o) ==
    [name |-> o.name, scene |-> o.scene, list_changed |-> o.list_changed,
     cursor_from |-> o.cursor_from, registration_from |-> o.registration_from]

\* The run may take another operation.
CanStep == steps < MaxSteps

\* Bookkeeping shared by every operation: which operation ran, on which
\* scene, whether a history list changed, where that scene's cursor was,
\* what was registered, and the state it ran in.  It is the last conjunct of every operation.
Record(name, scene) ==
    /\ steps' = steps + 1
    /\ op' = [name |-> name, scene |-> scene,
              list_changed |-> (history_list' # history_list),
              cursor_from |-> cursor_location[scene],
              registration_from |-> registration,
              prev |-> Brief(op)]
    /\ pre' = Snapshot

\* --------------------------------------------------------------- operations
start_keeps_last_pos(last_pos, current_pos) == last_pos

\* props.last_cursor_pos = current_pos
start_last_pos(last_pos, current_pos) == current_pos

start_recording_no_entry ==
    LET props       == context_scene
        current_pos == cursor_location[context_scene]
    IN  /\ CanStep
        /\ is_recording' = [is_recording EXCEPT ![props] = TRUE]
        /\ last_cursor_pos' = [last_cursor_pos EXCEPT ![props] =
               start_last_pos(last_cursor_pos[props], current_pos)]
        /\ UNCHANGED <<history_list, active_index, cursor_location,
                       context_scene, fault>>
        /\ Record("start_recording", props)

\* CURSOR_OT_start_recording.execute
CURSOR_OT_start_recording ==
    \E now \in Clock :
        LET props       == context_scene
            current_pos == cursor_location[context_scene]
        IN  /\ CanStep
            /\ is_recording' = [is_recording EXCEPT ![props] = TRUE]
            /\ last_cursor_pos' = [last_cursor_pos EXCEPT ![props] =
                   start_last_pos(last_cursor_pos[props], current_pos)]
            /\ add_cursor_history_entry(current_pos, now)
            /\ UNCHANGED <<cursor_location, context_scene, fault>>
            /\ Record("start_recording", props)

stop_recording_toggles ==
    /\ CanStep
    /\ is_recording' = [is_recording EXCEPT
           ![context_scene] = ~is_recording[context_scene]]
    /\ UNCHANGED <<history_list, active_index, last_cursor_pos,
                   cursor_location, context_scene, fault>>
    /\ Record("stop_recording", context_scene)

\* CURSOR_OT_stop_recording.execute
CURSOR_OT_stop_recording ==
    /\ CanStep
    /\ is_recording' = [is_recording EXCEPT ![context_scene] = FALSE]
    /\ UNCHANGED <<history_list, active_index, last_cursor_pos,
                   cursor_location, context_scene, fault>>
    /\ Record("stop_recording", context_scene)

delete_entry_no_clamp ==
    LET props == context_scene
    IN  /\ CanStep
        /\ IF Len(history_list[props]) > 0 /\ active_index[props] >= 0
           THEN /\ history_list' = [history_list EXCEPT
                       ![props] = remove(history_list[props], active_index[props])]
                /\ UNCHANGED active_index
           ELSE UNCHANGED <<history_list, active_index>>
        /\ UNCHANGED <<is_recording, last_cursor_pos, cursor_location,
                       context_scene, fault>>
        /\ Record("delete_entry", props)

delete_entry_unguarded ==
    LET props == context_scene
        list  == remove(history_list[props], active_index[props])
    IN  /\ CanStep
        /\ history_list' = [history_list EXCEPT ![props] = list]
        /\ active_index' = [active_index EXCEPT ![props] =
               IF active_index[props] >= Len(list)
               THEN Len(list) - 1
               ELSE active_index[props]]
        /\ UNCHANGED <<is_recording, last_cursor_pos, cursor_location,
                       context_scene, fault>>
        /\ Record("delete_entry", props)

\* CURSOR_OT_delete_entry.execute
CURSOR_OT_delete_entry ==
    LET props == context_scene
        list  == remove(history_list[props], active_index[props])
    IN  /\ CanStep
        /\ IF Len(history_list[props]) > 0 /\ active_index[props] >= 0
           THEN /\ history_list' = [history_list EXCEPT ![props] = list]
                /\ active_index' = [active_index EXCEPT ![props] =
                       IF active_index[props] >= Len(list)
                       THEN Len(list) - 1
                       ELSE active_index[props]]
           ELSE UNCHANGED <<history_list, active_index>>
        /\ UNCHANGED <<is_recording, last_cursor_pos, cursor_location,
                       context_scene, fault>>
        /\ Record("delete_entry", props)

clear_history_keeps_index ==
    /\ CanStep
    /\ history_list' = [history_list EXCEPT ![context_scene] = <<>>]
    /\ UNCHANGED <<active_index, is_recording, last_cursor_pos,
                   cursor_location, context_scene, fault>>
    /\ Record("clear_history", context_scene)

\* CURSOR_OT_clear_history.execute
CURSOR_OT_clear_history ==
    /\ CanStep
    /\ history_list' = [history_list EXCEPT ![context_scene] = <<>>]
    /\ active_index' = [active_index EXCEPT ![context_scene] = 0]
    /\ UNCHANGED <<is_recording, last_cursor_pos, cursor_location,
                   context_scene, fault>>
    /\ Record("clear_history", context_scene)

\* is_recording after the jump
jump_leaves_recording_off(was_recording) == FALSE

\* was_recording = props.is_recording; props.is_recording = False; ...;
\* props.is_recording = was_recording
jump_restores_recording(was_recording) == was_recording

\* last_cursor_pos after the jump
jump_keeps_last_pos(last_pos, location) == last_pos

\* props.last_cursor_pos = entry.location
jump_last_pos(last_pos, location) == location

\* CURSOR_OT_jump_to_position.execute.  Indexing history_list past its end
\* raises IndexError before anything is written.
CURSOR_OT_jump_to_position ==
    LET props == context_scene
    IN  /\ CanStep
        /\ IF Len(history_list[props]) > 0 /\ active_index[props] >= 0
           THEN IF active_index[props] >= Len(history_list[props])
                THEN /\ fault' = TRUE
                     /\ UNCHANGED <<is_recording, last_cursor_pos, cursor_location>>
                ELSE LET entry == history_list[props][active_index[props] + 1]
                     IN  /\ cursor_location' =
                               [cursor_location EXCEPT ![props] = entry.location]
                         /\ last_cursor_pos' = [last_cursor_pos EXCEPT ![props] =
                               jump_last_pos(last_cursor_pos[props], entry.location)]
                         /\ is_recording' = [is_recording EXCEPT ![props] =
                               jump_restores_recording(is_recording[props])]
                         /\ UNCHANGED fault
           ELSE UNCHANGED <<is_recording, last_cursor_pos, cursor_location, fault>>
        /\ UNCHANGED <<history_list, active_index, context_scene>>
        /\ Record("jump_to_position", props)

\* Rows the user clicks in the list: the first, the middle and the last one.
Rows(list) == {0, Len(list) \div 2, Len(list) - 1}

\* CURSOR_PT_history_panel.draw: template_list binds the selected row of the
\* list to active_index; the list is drawn only when it has entries.
select_row(index) ==
    LET props == context_scene
    IN  /\ Len(history_list[props]) > 0
        /\ index \in Rows(history_list[props])
        /\ index # active_index[props]
        /\ CanStep
        /\ active_index' = [active_index EXCEPT ![props] = index]
        /\ UNCHANGED <<history_list, is_recording, last_cursor_pos,
                       cursor_location, context_scene, fault>>
        /\ Record("select_row", props)

\* The user (or a script) moves the 3D cursor of a scene.
move_cursor(scene, location) ==
    /\ location # cursor_location[scene]
    /\ CanStep
    /\ cursor_location' = [cursor_location EXCEPT ![scene] = location]
    /\ UNCHANGED <<history_list, active_index, is_recording, last_cursor_pos,
                   context_scene, fault>>
    /\ Record("move_cursor", scene)

\* The host makes another scene the context scene (another window).
set_context_scene(scene) ==
    /\ scene # context_scene
    /\ CanStep
    /\ context_scene' = scene
    /\ UNCHANGED <<history_list, active_index, is_recording, last_cursor_pos,
                   cursor_location, fault>>
    /\ Record("set_context_scene", scene)

\* hasattr(scene, 'cursor_history_props')
hasattr_cursor_history_props == Scene_cursor_history_props

handler_ignores_flag(scene) ==
    LET props       == scene
        current_pos == cursor_location[scene]
        last_pos    == last_cursor_pos[props]
    IN  /\ CanStep
        /\ IF hasattr_cursor_history_props /\ has_moved(current_pos, last_pos)
           THEN /\ \E now \in Clock : add_cursor_history_entry(current_pos, now)
                /\ last_cursor_pos' = [last_cursor_pos EXCEPT ![props] = current_pos]
           ELSE UNCHANGED <<history_list, active_index, last_cursor_pos>>
        /\ UNCHANGED <<is_recording, cursor_location, context_scene, fault>>
        /\ Record("cursor_position_handler", scene)

handler_keeps_last_pos(scene) ==
    LET props       == scene
        current_pos == cursor_location[scene]
        last_pos    == last_cursor_pos[props]
    IN  /\ CanStep
        /\ IF hasattr_cursor_history_props /\ is_recording[props]
              /\ has_moved(current_pos, last_pos)
           THEN /\ \E now \in Clock : add_cursor_history_entry(current_pos, now)
                /\ UNCHANGED last_cursor_pos
           ELSE UNCHANGED <<history_list, active_index, last_cursor_pos>>
        /\ UNCHANGED <<is_recording, cursor_location, context_scene, fault>>
        /\ Record("cursor_position_handler", scene)

handler_always_updates_last_pos(scene) ==
    LET props       == scene
        current_pos == cursor_location[scene]
        last_pos    == last_cursor_pos[props]
    IN  /\ CanStep
        /\ IF hasattr_cursor_history_props /\ is_recording[props]
           THEN /\ IF has_moved(current_pos, last_pos)
                   THEN \E now \in Clock :
                            add_cursor_history_entry(current_pos, now)
                   ELSE UNCHANGED <<history_list, active_index>>
                /\ last_cursor_pos' = [last_cursor_pos EXCEPT ![props] = current_pos]
           ELSE UNCHANGED <<history_list, active_index, last_cursor_pos>>
        /\ UNCHANGED <<is_recording, cursor_location, context_scene, fault>>
        /\ Record("cursor_position_handler", scene)

\* cursor_position_handler(scene): the depsgraph_update_post notification for
\* a scene.  It reads the props and the cursor of its argument; the entry is
\* added by add_cursor_history_entry.
cursor_position_handler(scene) ==
    LET props       == scene
        current_pos == cursor_location[scene]
        last_pos    == last_cursor_pos[props]
    IN  /\ CanStep
        /\ IF hasattr_cursor_history_props /\ is_recording[props]
              /\ has_moved(current_pos, last_pos)
           THEN /\ \E now \in Clock : add_cursor_history_entry(current_pos, now)
                /\ last_cursor_pos' = [last_cursor_pos EXCEPT ![props] = current_pos]
           ELSE UNCHANGED <<history_list, active_index, last_cursor_pos>>
        /\ UNCHANGED <<is_recording, cursor_location, context_scene, fault>>
        /\ Record("cursor_position_handler", scene)

\* The position in classes of the first class bpy.utils.register_class
\* rejects because it is registered already; 0 when it accepts them all.
first_rejected ==
    LET bad == {k \in DOMAIN classes : classes[k] \in registered_classes}
    IN  IF bad = {} THEN 0 ELSE CHOOSE k \in bad : \A j \in bad : k <= j

\* The position in classes of the first class, going backwards, that
\* bpy.utils.unregister_class rejects because it is not registered; 0 when
\* it accepts them all.
last_rejected ==
    LET bad == {k \in DOMAIN classes : classes[k] \notin registered_classes}
    IN  IF bad = {} THEN 0 ELSE CHOOSE k \in bad : \A j \in bad : k >= j

\* if cursor_position_handler not in depsgraph_update_post: append it
handler_appended(n) == IF n = 0 THEN 1 ELSE n

\* if cursor_position_handler in depsgraph_update_post: remove it
handler_removed(n) == IF n > 0 THEN n - 1 ELSE n

unregister_keeps_handler ==
    /\ CanStep
    /\ UNCHANGED depsgraph_update_post
    /\ IF ~Scene_cursor_history_props
       THEN /\ exception' = "AttributeError"
            /\ UNCHANGED <<Scene_cursor_history_props, registered_classes>>
       ELSE /\ Scene_cursor_history_props' = FALSE
            /\ IF last_rejected # 0
               THEN /\ registered_classes' = registered_classes \
                          {classes[j] : j \in (last_rejected + 1)..Len(classes)}
                    /\ exception' = "RuntimeError"
               ELSE /\ registered_classes' = registered_classes \ Range(classes)
                    /\ exception' = "none"
    /\ UNCHANGED <<history_list, active_index, is_recording, last_cursor_pos,
                   cursor_location, context_scene, fault>>
    /\ Record("unregister", context_scene)

\* register(): register_class raises ValueError for a class that is
\* registered already, which ends the call.
register ==
    /\ CanStep
    /\ IF first_rejected # 0
       THEN /\ registered_classes' = registered_classes \cup
                  {classes[j] : j \in 1..(first_rejected - 1)}
            /\ exception' = "ValueError"
            /\ UNCHANGED <<Scene_cursor_history_props, depsgraph_update_post>>
       ELSE /\ registered_classes' = registered_classes \cup Range(classes)
            /\ Scene_cursor_history_props' = TRUE
            /\ depsgraph_update_post' = handler_appended(depsgraph_update_post)
            /\ exception' = "none"
    /\ UNCHANGED <<history_list, active_index, is_recording, last_cursor_pos,
                   cursor_location, context_scene, fault>>
    /\ Record("register", context_scene)

\* unregister(): del of a missing attribute raises AttributeError and
\* unregister_class raises RuntimeError for a class that is not registered;
\* either ends the call.
unregister ==
    /\ CanStep
    /\ depsgraph_update_post' = handler_removed(depsgraph_update_post)
    /\ IF ~Scene_cursor_history_props
       THEN /\ exception' = "AttributeError"
            /\ UNCHANGED <<Scene_cursor_history_props, registered_classes>>
       ELSE /\ Scene_cursor_history_props' = FALSE
            /\ IF last_rejected # 0
               THEN /\ registered_classes' = registered_classes \
                          {classes[j] : j \in (last_rejected + 1)..Len(classes)}
                    /\ exception' = "RuntimeError"
               ELSE /\ registered_classes' = registered_classes \ Range(classes)
                    /\ exception' = "none"
    /\ UNCHANGED <<history_list, active_index, is_recording, last_cursor_pos,
                   cursor_location, context_scene, fault>>
    /\ Record("unregister", context_scene)

\* The host offers an operator or the panel once its class is registered
\* and the scenes carry cursor_history_props.
Callable(class) ==
    class \in registered_classes /\ Scene_cursor_history_props

\* An operator, the panel, the handler and the host's own changes leave the
\* registrations alone.
RegistrationUnchanged ==
    UNCHANGED <<registered_classes, Scene_cursor_history_props,
                depsgraph_update_post, exception>>

Next ==
    \/ /\ Callable("CURSOR_OT_start_recording")
       /\ CURSOR_OT_start_recording
       /\ RegistrationUnchanged
    \/ /\ Callable("CURSOR_OT_stop_recording")
       /\ CURSOR_OT_stop_recording
       /\ RegistrationUnchanged
    \/ /\ Callable("CURSOR_OT_delete_entry")
       /\ CURSOR_OT_delete_entry
       /\ RegistrationUnchanged
    \/ /\ Callable("CURSOR_OT_clear_history")
       /\ CURSOR_OT_clear_history
       /\ RegistrationUnchanged
    \/ /\ Callable("CURSOR_OT_jump_to_position")
       /\ CURSOR_OT_jump_to_position
       /\ RegistrationUnchanged
    \/ /\ Callable("CURSOR_PT_history_panel")
       /\ \E index \in 0..(max_entries - 1) : select_row(index)
       /\ RegistrationUnchanged
    \/ /\ \E scene \in Scenes, location \in MovePoints :
              move_cursor(scene, location)
       /\ RegistrationUnchanged
    \/ /\ \E scene \in Scenes : set_context_scene(scene)
       /\ RegistrationUnchanged
    \/ /\ depsgraph_update_post > 0
       /\ \E scene \in Scenes : cursor_position_handler(scene)
       /\ RegistrationUnchanged
    \/ register
    \/ unregister

Spec == Init /\ [][Next]_vars

\* ---------------------------------------------------------------- typing
TypeOK ==
    /\ \A s \in Scenes :
          /\ history_list[s] \in Seq([location : Points, timestamp : Seq(Nat)])
          /\ active_index[s] \in -1..(max_entries - 1)
          /\ is_recording[s] \in BOOLEAN
          /\ last_cursor_pos[s] \in Points
          /\ cursor_location[s] \in Points
    /\ context_scene \in Scenes
    /\ steps \in 0..MaxSteps
    /\ registered_classes \subseteq Range(classes)
    /\ Scene_cursor_history_props \in BOOLEAN
    /\ depsgraph_update_post \in 0..1
    /\ exception \in {"none", "ValueError", "AttributeError", "RuntimeError"}

\* ------------------------------------------------------------------ claims
\* The scene whose props the last operator (or add_cursor_history_entry) used.
Ctx == pre.context_scene

\* Exact comparison of the Euclidean distance of two positions with 0.001.
FartherThanTolerance(a, b) ==
    (a[1] - b[1]) * (a[1] - b[1]) + (a[2] - b[2]) * (a[2] - b[2])
        + (a[3] - b[3]) * (a[3] - b[3]) > Tolerance * Tolerance

IsHandler == op.name = "cursor_position_handler"

\* The last operation was a notification that found its scene recording and
\* its cursor farther than the tolerance from last_cursor_pos.
HandlerDetected ==
    /\ IsHandler
    /\ pre.is_recording[op.scene]
    /\ FartherThanTolerance(pre.cursor_location[op.scene],
                            pre.last_cursor_pos[op.scene])

\* The last operation called add_cursor_history_entry.
Appended == op.name = "start_recording" \/ HandlerDetected

\* The position handed to add_cursor_history_entry.
AppendedLocation == pre.cursor_location[op.scene]

\* new is old with one entry at location added at the end, the oldest entry
\* evicted when old was full.
IsAppendOf(new, old, location) ==
    /\ Len(new) >= 1
    /\ new[Len(new)].location = location
    /\ IF Len(old) >= max_entries
       THEN /\ Len(new) = Len(old)
            /\ \A i \in 1..(Len(old) - 1) : new[i] = old[i + 1]
       ELSE /\ Len(new) = Len(old) + 1
            /\ \A i \in 1..Len(old) : new[i] = old[i]

\* The props of every scene but s are as before the last operation.
OthersUnchanged(s) ==
    \A t \in Scenes \ {s} :
        /\ history_list[t] = pre.history_list[t]
        /\ active_index[t] = pre.active_index[t]
        /\ is_recording[t] = pre.is_recording[t]
        /\ last_cursor_pos[t] = pre.last_cursor_pos[t]

\* The props of scene s are as before the last operation.
PropsUnchanged(s) ==
    /\ history_list[s] = pre.history_list[s]
    /\ active_index[s] = pre.active_index[s]
    /\ is_recording[s] = pre.is_recording[s]
    /\ last_cursor_pos[s] = pre.last_cursor_pos[s]

\* C1: in every reachable state the history list of every scene holds at
\* most 100 entries.
C1_AtMostMaxEntries ==
    \A s \in Scenes : Len(history_list[s]) <= max_entries

\* An entry was added to a list that already held 100 entries.
C1_Witness ==
    /\ Appended
    /\ Len(pre.history_list[Ctx]) = max_entries
    /\ Len(history_list[Ctx]) = max_entries

\* C2: an append to a history of 100 entries yields the previous list without
\* its entry at index 0, in unchanged order, followed by the new entry; an
\* append to a shorter history keeps every entry and adds the new one.
C2_AppendEvictsOldest ==
    Appended =>
        LET old == pre.history_list[Ctx]
            new == history_list[Ctx]
        IN  /\ Len(new) >= 1
            /\ new[Len(new)].location = AppendedLocation
            /\ Len(old) = max_entries =>
                  new = Tail(old) \o <<new[Len(new)]>>
            /\ Len(old) < max_entries =>
                  new = old \o <<new[Len(new)]>>

\* The detector appended to a full list whose oldest entry differs from the
\* second oldest.
C2_Witness ==
    /\ HandlerDetected
    /\ Len(pre.history_list[Ctx]) = max_entries
    /\ pre.history_list[Ctx][1] # pre.history_list[Ctx][2]
    /\ history_list[Ctx][1] = pre.history_list[Ctx][2]

\* C3: whenever a history list is non-empty, 0 <= active_index < its length,
\* and no operator has indexed a list out of range.
C3_ActiveIndexInRange ==
    /\ \A s \in Scenes :
          Len(history_list[s]) > 0 =>
              0 <= active_index[s] /\ active_index[s] < Len(history_list[s])
    /\ fault = FALSE

\* DeleteSelected removed the last row of a list that stays non-empty, after
\* an append on a full list in the same run.
C3_Witness ==
    /\ op.name = "delete_entry"
    /\ pre.active_index[Ctx] = Len(pre.history_list[Ctx]) - 1
    /\ Len(pre.history_list[Ctx]) = max_entries
    /\ Len(history_list[Ctx]) = max_entries - 1
    /\ active_index[Ctx] = max_entries - 2

C5_DetectorAppendsIffMoved ==
    (IsHandler /\ pre.is_recording[op.scene]) =>
        LET s == op.scene
            current_pos == pre.cursor_location[s]
        IN  IF FartherThanTolerance(current_pos, pre.last_cursor_pos[s])
            THEN /\ IsAppendOf(history_list[s], pre.history_list[s], current_pos)
                 /\ active_index[s] = Len(history_list[s]) - 1
                 /\ last_cursor_pos[s] = current_pos
                 /\ is_recording[s]
            ELSE PropsUnchanged(s)

\* The same statement for notifications whose scene is the context scene;
\* it holds, so C5 fails only when the two scenes differ.
C5_WhenSceneIsContext ==
    (IsHandler /\ op.scene = Ctx) => C5_DetectorAppendsIffMoved

\* When the cursor is within the tolerance, the boundary included, a
\* notification changes nothing in any scene.
C5_WithinToleranceNoEffect ==
    (IsHandler /\ ~HandlerDetected) => \A s \in Scenes : PropsUnchanged(s)

\* A notification at a distance of exactly 0.001 on a recording scene.
C5_BoundaryReached ==
    /\ IsHandler
    /\ pre.is_recording[op.scene]
    /\ pre.last_cursor_pos[op.scene] = Origin
    /\ pre.cursor_location[op.scene] \in {<<0, 0, 10>>, <<6, 8, 0>>}

\* C6: the second of two consecutive notifications for the same scene leaves
\* the props of every scene and every cursor unchanged.
C6_SecondNotificationNoEffect ==
    (IsHandler /\ op.prev.name = "cursor_position_handler"
               /\ op.prev.scene = op.scene) =>
        /\ \A s \in Scenes : PropsUnchanged(s)
        /\ cursor_location = pre.cursor_location

\* The second notification came after one that appended an entry.
C6_Witness ==
    /\ IsHandler
    /\ op.prev.name = "cursor_position_handler"
    /\ op.prev.scene = op.scene
    /\ op.prev.list_changed
    /\ is_recording[op.scene]

\* C7: StartRecording sets is_recording, sets last_cursor_pos to the cursor
\* position and appends one entry at that position as the last entry with
\* active_index on it (one entry and index 0 from an empty list); a
\* notification for the scene right afterwards appends nothing.
C7_StartRecording ==
    /\ op.name = "start_recording" =>
          /\ is_recording[Ctx]
          /\ last_cursor_pos[Ctx] = pre.cursor_location[Ctx]
          /\ IsAppendOf(history_list[Ctx], pre.history_list[Ctx],
                        pre.cursor_location[Ctx])
          /\ active_index[Ctx] = Len(history_list[Ctx]) - 1
          /\ Len(pre.history_list[Ctx]) = 0 =>
                Len(history_list[Ctx]) = 1 /\ active_index[Ctx] = 0
          /\ OthersUnchanged(Ctx)
          /\ cursor_location = pre.cursor_location
    /\ (IsHandler /\ op.prev.name = "start_recording"
                  /\ op.prev.scene = op.scene) =>
          /\ \A s \in Scenes : PropsUnchanged(s)

\* A notification right after a StartRecording that found the cursor away
\* from the old last_cursor_pos.
C7_Witness ==
    /\ IsHandler
    /\ op.prev.name = "start_recording"
    /\ op.prev.scene = op.scene
    /\ cursor_location[op.scene] = <<0, 0, 11>>
    /\ Len(history_list[op.scene]) = 1

\* C8 as stated: whenever is_recording is true the history list is non-empty.
C8_RecordingHasAnchor ==
    \A s \in Scenes : is_recording[s] => Len(history_list[s]) > 0

\* C8 amended: StartRecording leaves the scene recording with a non-empty
\* history, is_recording turns true only by StartRecording, and the history
\* of a recording scene becomes empty only by DeleteSelected or ClearAll.
C8_AnchorUntilRemoved ==
    /\ op.name = "start_recording" =>
          is_recording[Ctx] /\ Len(history_list[Ctx]) > 0
    /\ \A s \in Scenes :
          /\ (is_recording[s] /\ ~pre.is_recording[s]) =>
                op.name = "start_recording" /\ op.scene = s
          /\ (is_recording[s] /\ Len(history_list[s]) = 0
                 /\ Len(pre.history_list[s]) > 0) =>
                op.name \in {"delete_entry", "clear_history"} /\ op.scene = s

\* StartRecording on an empty history.
C8_Witness ==
    /\ op.name = "start_recording"
    /\ Len(pre.history_list[Ctx]) = 0
    /\ ~pre.is_recording[Ctx]

\* C9: JumpToSelected on a non-empty list sets the cursor and last_cursor_pos
\* to the selected entry's location and leaves is_recording, the history
\* list and active_index unchanged.
C9_JumpToSelected ==
    (op.name = "jump_to_position" /\ Len(pre.history_list[Ctx]) > 0
        /\ 0 <= pre.active_index[Ctx]
        /\ pre.active_index[Ctx] < Len(pre.history_list[Ctx])) =>
        LET entry == pre.history_list[Ctx][pre.active_index[Ctx] + 1]
        IN  /\ cursor_location[Ctx] = entry.location
            /\ last_cursor_pos[Ctx] = entry.location
            /\ is_recording[Ctx] = pre.is_recording[Ctx]
            /\ history_list[Ctx] = pre.history_list[Ctx]
            /\ active_index[Ctx] = pre.active_index[Ctx]
            /\ OthersUnchanged(Ctx)
            /\ \A t \in Scenes \ {Ctx} :
                  cursor_location[t] = pre.cursor_location[t]

\* A jump while recording that moved the cursor and last_cursor_pos.
C9_Witness ==
    /\ op.name = "jump_to_position"
    /\ pre.is_recording[Ctx]
    /\ is_recording[Ctx]
    /\ cursor_location[Ctx] # pre.cursor_location[Ctx]
    /\ last_cursor_pos[Ctx] # pre.last_cursor_pos[Ctx]

\* A jump while not recording.
C9_NotRecordingReached ==
    /\ op.name = "jump_to_position"
    /\ ~pre.is_recording[Ctx]
    /\ cursor_location[Ctx] # pre.cursor_location[Ctx]

\* The last operation directly follows a JumpToSelected on its scene that
\* found a selected entry (the jump writes neither the list nor active_index,
\* so its guard is read from the state between the two).
FollowsJump ==
    /\ op.prev.name = "jump_to_position"
    /\ op.prev.scene = op.scene
    /\ Len(pre.history_list[op.scene]) > 0
    /\ pre.active_index[op.scene] >= 0

\* C10: a notification that directly follows a JumpToSelected to an entry of
\* its scene, the cursor still at the jump target, appends no entry.
C10_NoRecordingAfterJump ==
    (IsHandler /\ FollowsJump) =>
        /\ history_list = pre.history_list
        /\ active_index = pre.active_index
        /\ last_cursor_pos = pre.last_cursor_pos

\* The notification follows a jump, made while recording, that moved the
\* cursor farther than the tolerance.
C10_Witness ==
    /\ IsHandler
    /\ FollowsJump
    /\ pre.is_recording[op.scene]
    /\ FartherThanTolerance(op.prev.cursor_from, pre.cursor_location[op.scene])

\* C11: DeleteSelected with a valid active_index i removes exactly the entry
\* at index i: the list is one shorter, the other entries keep their order
\* and contents, active_index is min(i, new length - 1), and is_recording
\* and last_cursor_pos are unchanged.
C11_DeleteSelected ==
    (op.name = "delete_entry" /\ 0 <= pre.active_index[Ctx]
        /\ pre.active_index[Ctx] < Len(pre.history_list[Ctx])) =>
        LET old == pre.history_list[Ctx]
            new == history_list[Ctx]
            i   == pre.active_index[Ctx]
        IN  /\ Len(new) = Len(old) - 1
            /\ \A j \in 1..Len(new) :
                  new[j] = IF j <= i THEN old[j] ELSE old[j + 1]
            /\ active_index[Ctx] =
                  IF i <= Len(new) - 1 THEN i ELSE Len(new) - 1
            /\ is_recording[Ctx] = pre.is_recording[Ctx]
            /\ last_cursor_pos[Ctx] = pre.last_cursor_pos[Ctx]
            /\ OthersUnchanged(Ctx)
            /\ cursor_location = pre.cursor_location

\* A row in the middle of the list was deleted.
C11_Witness ==
    /\ op.name = "delete_entry"
    /\ 0 < pre.active_index[Ctx]
    /\ pre.active_index[Ctx] < Len(pre.history_list[Ctx]) - 1
    /\ active_index[Ctx] = pre.active_index[Ctx]

\* The only entry was deleted and active_index is -1.
C11_EmptiedReached ==
    /\ op.name = "delete_entry"
    /\ Len(pre.history_list[Ctx]) = 1
    /\ Len(history_list[Ctx]) = 0
    /\ active_index[Ctx] = -1

\* C12: DeleteSelected and JumpToSelected on an empty list change no props
\* and no cursor and raise nothing, with active_index 0 or -1.
C12_EmptyStoreNoOp ==
    (op.name \in {"delete_entry", "jump_to_position"}
        /\ Len(pre.history_list[Ctx]) = 0) =>
        /\ \A s \in Scenes : PropsUnchanged(s)
        /\ cursor_location = pre.cursor_location
        /\ fault = FALSE

\* DeleteSelected ran on a list emptied by a delete (active_index -1).
C12_Witness ==
    /\ op.name = "delete_entry"
    /\ Len(pre.history_list[Ctx]) = 0
    /\ pre.active_index[Ctx] = -1

\* JumpToSelected ran on an empty list with active_index 0 and the cursor
\* away from last_cursor_pos.
C12_JumpReached ==
    /\ op.name = "jump_to_position"
    /\ Len(pre.history_list[Ctx]) = 0
    /\ pre.active_index[Ctx] = 0
    /\ pre.cursor_location[Ctx] # pre.last_cursor_pos[Ctx]

\* C13: ClearAll leaves the history list empty and active_index 0, and
\* leaves is_recording and last_cursor_pos unchanged.
C13_ClearAll ==
    op.name = "clear_history" =>
        /\ history_list[Ctx] = <<>>
        /\ active_index[Ctx] = 0
        /\ is_recording[Ctx] = pre.is_recording[Ctx]
        /\ last_cursor_pos[Ctx] = pre.last_cursor_pos[Ctx]
        /\ OthersUnchanged(Ctx)
        /\ cursor_location = pre.cursor_location

\* ClearAll ran while recording on a full list with its last row selected.
C13_Witness ==
    /\ op.name = "clear_history"
    /\ pre.is_recording[Ctx]
    /\ Len(pre.history_list[Ctx]) = max_entries
    /\ pre.active_index[Ctx] = max_entries - 1

\* C14: StopRecording sets is_recording to false and leaves the history
\* list, active_index, last_cursor_pos and the cursor unchanged.
C14_StopRecording ==
    op.name = "stop_recording" =>
        /\ is_recording[Ctx] = FALSE
        /\ history_list[Ctx] = pre.history_list[Ctx]
        /\ active_index[Ctx] = pre.active_index[Ctx]
        /\ last_cursor_pos[Ctx] = pre.last_cursor_pos[Ctx]
        /\ OthersUnchanged(Ctx)
        /\ cursor_location = pre.cursor_location

\* StopRecording ran on a recording scene with entries.
C14_Witness ==
    /\ op.name = "stop_recording"
    /\ pre.is_recording[Ctx]
    /\ Len(pre.history_list[Ctx]) > 0

\* StopRecording ran on a scene that was not recording.
C14_NotRecordingReached ==
    /\ op.name = "stop_recording"
    /\ ~pre.is_recording[Ctx]

\* C17: a notification for scene S changes the history list and active_index
\* of no other scene.
C17_DetectorWritesOwnScene ==
    IsHandler =>
        \A t \in Scenes \ {op.scene} :
            /\ history_list[t] = pre.history_list[t]
            /\ active_index[t] = pre.active_index[t]

\* A notification for a scene other than the context scene found its own
\* scene recording and moved: the case C17 is about.
C17_CaseReached ==
    /\ HandlerDetected
    /\ op.scene # Ctx

\* old with the row at 0-based index i taken out.
Without(old, i) == SubSeq(old, 1, i) \o SubSeq(old, i + 2, Len(old))

\* C18 as stated: a step that is neither DeleteSelected nor ClearAll keeps
\* every entry of every history list, in place and unchanged.
C18_OnlyDeleteAndClearRemove ==
    op.name \notin {"delete_entry", "clear_history"} =>
        \A s \in Scenes :
            /\ Len(history_list[s]) >= Len(pre.history_list[s])
            /\ SubSeq(history_list[s], 1, Len(pre.history_list[s]))
                  = pre.history_list[s]

\* C18 amended: a step leaves a history list as it was, or adds one entry at
\* its end (StartRecording or the detector; on a list of 100 entries the
\* oldest entry is evicted by that append), or takes one row out
\* (DeleteSelected), or empties it (ClearAll); entries that stay keep their
\* order, location and timestamp.
C18_EntriesEnterAndLeave ==
    \A s \in Scenes :
        LET old == pre.history_list[s]
            new == history_list[s]
        IN  \/ new = old
            \/ /\ op.name \in {"start_recording", "cursor_position_handler"}
               /\ s = Ctx
               /\ Len(new) >= 1
               /\ IF Len(old) < max_entries
                  THEN new = old \o <<new[Len(new)]>>
                  ELSE new = Tail(old) \o <<new[Len(new)]>>
            \/ /\ op.name = "delete_entry"
               /\ s = Ctx
               /\ \E i \in 0..(Len(old) - 1) : new = Without(old, i)
            \/ /\ op.name = "clear_history"
               /\ s = Ctx
               /\ new = <<>>

\* An append on a full list evicted the oldest entry.
C18_Witness ==
    /\ Appended
    /\ Len(pre.history_list[Ctx]) = max_entries
    /\ history_list[Ctx][1] = pre.history_list[Ctx][2]
    /\ history_list[Ctx][1] # pre.history_list[Ctx][1]

\* C19: right after a notification for a recording scene its cursor is
\* within 0.001 of last_cursor_pos; a notification that finds the cursor
\* within 0.001 of last_cursor_pos does not advance last_cursor_pos, and one
\* that finds it farther away records the cursor position.
C19_CursorNearLastPos ==
    IsHandler =>
        /\ is_recording[op.scene] =>
              ~FartherThanTolerance(cursor_location[op.scene],
                                    last_cursor_pos[op.scene])
        /\ ~HandlerDetected => last_cursor_pos = pre.last_cursor_pos
        /\ HandlerDetected =>
              IsAppendOf(history_list[Ctx], pre.history_list[Ctx],
                         pre.cursor_location[op.scene])

\* The cursor went from (0,0,0) to (0,0,0.001) and on to (0,0,0.0011), each
\* move within the tolerance, and the notification recorded the position
\* 0.0011 away from last_cursor_pos.
C19_Witness ==
    /\ HandlerDetected
    /\ op.prev.name = "move_cursor"
    /\ op.prev.scene = op.scene
    /\ op.prev.cursor_from = <<0, 0, 10>>
    /\ pre.last_cursor_pos[op.scene] = Origin
    /\ pre.cursor_location[op.scene] = <<0, 0, 11>>
    /\ last_cursor_pos[op.scene] = <<0, 0, 11>>

\* A notification left last_cursor_pos where it was, exactly 0.001 from the
\* cursor.
C19_BoundaryReached ==
    /\ IsHandler
    /\ is_recording[op.scene]
    /\ cursor_location[op.scene] # last_cursor_pos[op.scene]
    /\ ~FartherThanTolerance(cursor_location[op.scene],
                             last_cursor_pos[op.scene])

\* Nothing of the add-on is registered: no class, no cursor_history_props on
\* the scenes, no handler in depsgraph_update_post.
NothingRegistered == <<{}, FALSE, 0>>

\* C15: unregister() with nothing of the add-on registered raises nothing
\* and leaves the registrations as they were.
C15_UnregisterWhenAbsent ==
    (op.name = "unregister" /\ pre.registration = NothingRegistered) =>
        /\ exception = "none"
        /\ registration = pre.registration

\* The part of C15 that holds: such an unregister() changes no registration
\* (the handler list is guarded; the del raises before anything is written).
C15_RegistrationsUntouched ==
    (op.name = "unregister" /\ pre.registration = NothingRegistered) =>
        registration = pre.registration

\* unregister() was called twice in a row.
C15_TwiceReached ==
    /\ op.name = "unregister"
    /\ op.prev.name = "unregister"
    /\ pre.registration = NothingRegistered

\* unregister() was called with no register() before it.
C15_NeverRegisteredReached ==
    /\ op.name = "unregister"
    /\ op.prev.name = "init"
    /\ pre.registration = NothingRegistered

\* The last two operations were register() and then unregister().
RegisterThenUnregister ==
    op.name = "unregister" /\ op.prev.name = "register"

\* C16 as stated: the handler is in depsgraph_update_post at most once, and
\* register() followed by unregister() returns the registrations to what
\* they were before the register().
C16_AtMostOnceAndRoundTrip ==
    /\ depsgraph_update_post <= 1
    /\ RegisterThenUnregister => registration = op.prev.registration_from

\* C16 amended: the handler is in depsgraph_update_post at most once, and
\* register() with nothing of the add-on registered, followed by
\* unregister(), leaves nothing registered again, neither call raising.
C16_AtMostOnceAndCleanRoundTrip ==
    /\ depsgraph_update_post <= 1
    /\ (op.name = "register" /\ pre.registration = NothingRegistered) =>
          /\ registration = <<Range(classes), TRUE, 1>>
          /\ exception = "none"
    /\ (RegisterThenUnregister
           /\ op.prev.registration_from = NothingRegistered) =>
          /\ registration = NothingRegistered
          /\ exception = "none"

\* register() ran with nothing registered and unregister() followed.
C16_Witness ==
    /\ RegisterThenUnregister
    /\ op.prev.registration_from = NothingRegistered
    /\ pre.registration = <<Range(classes), TRUE, 1>>

\* register() was called with the add-on registered already.
C16_DoubleRegisterReached ==
    /\ op.name = "register"
    /\ pre.registration = <<Range(classes), TRUE, 1>>
    /\ exception = "ValueError"
    /\ depsgraph_update_post = 1

====
